---- MODULE Spec2Model ----
(***************************************************************************)
(* Recording session controller of src/App.tsx (component App) together    *)
(* with the platform objects it drives: MediaStream (capture stream),      *)
(* MediaRecorder (chunked recorder) and the remote calls of                *)
(* src/services/geminiService.ts.                                          *)
(*                                                                         *)
(* Every handler of the component is one action.  An async function is     *)
(* split at its await: the part before the await is one action, the        *)
(* continuation is another, because other handlers run in between.         *)
(*                                                                         *)
(* Platform behaviour relied upon (W3C MediaStream Recording):             *)
(*  - start() is called without a timeslice, so a recorder delivers its    *)
(*    data in one dataavailable event when it stops;                       *)
(*  - stop() inactivates the recorder at once and queues ONE task that     *)
(*    fires dataavailable and then stop; stop() on an inactive recorder    *)
(*    does nothing;                                                        *)
(*  - when all tracks of the recorded stream have ended the recorder is    *)
(*    stopped by the platform in the same way;                             *)
(*  - MediaRecorder.stop() does not end the tracks of the stream.          *)
(***************************************************************************)
EXTENDS Integers, Sequences, FiniteSets, TLC

(* ---------------------------- bounds ----------------------------------- *)
MaxCommands == 3
MaxClock == 1      \* largest value Date.now() returns

(* ------------------------- program constants --------------------------- *)
\* largest accepted file.size, in bytes
MaxUploadSize == 500 * 1024 * 1024

\* every stream is acquired on behalf of one command
RecIds == 1..MaxCommands

IDLE == "IDLE"
RECORDING == "RECORDING"
PAUSED == "PAUSED"
PROCESSING == "PROCESSING"
ERROR == "ERROR"
AppState == {IDLE, RECORDING, PAUSED, PROCESSING, ERROR}

NoMsg == "null"
MicMsg == "Could not access microphone."
TooLargeMsg == "File too large. Max 500MB allowed."
TranscribeMsg == "Transcription failed. Please try again or check file format."
SummarizeMsg == "Summarization failed."

\* sizes of the files a user supplies (bytes)
FileSizes == {MaxUploadSize, MaxUploadSize + 1}

\* response.text of the remote service; strings are sequences of characters
RawTexts == {<< >>, <<" ">>, <<"a">>, <<" ", "a">>}
\* response.text of the remote service for a chat question
ChatTexts == {<< >>, <<"a">>}
\* what the user has typed into the chat input when submitting
ChatInputs == {<<" ">>, <<"q">>, <<"r">>}
\* "I could not generate an answer."
NoAnswerText == <<"!">>
\* "Sorry, I couldn't process that question right now."
SorryText == <<"~">>
\* "Could not generate summary."
NoSummaryText == <<"?">>
\* summary === null
NullSummary == <<"null">>

VARIABLES
  appState,         \* useState appState
  errorMsg,         \* useState errorMsg
  segments,         \* useState segments
  summary,          \* useState summary (NullSummary or a text)
  mediaRecorderRef, \* mediaRecorderRef.current (0 = null)
  streamRef,        \* streamRef.current (0 = null)
  audioChunks,      \* audioChunksRef.current
  recState,         \* MediaRecorder.state of each recorder ("none" = not created)
  recOnstop,        \* MediaRecorder.onstop of each recorder
  flushPending,     \* the task queued by MediaRecorder.stop() has not run yet
  streamOpen,       \* "none" (not acquired), "open" (live tracks), "closed"
  nextId,           \* id of the next stream getUserMedia hands out
  pendingAcq,       \* initRecording calls suspended at await getUserMedia
  pendingTimers,    \* setTimeout callbacks of restartRecording not yet fired,
                    \* each tagged with the recorder its Restart stopped
  transcribing,     \* processAudio calls suspended at await transcribeAudioToUrdu
  summarizing,
       \* handleSummarize calls suspended at await summarizeUrduContent
  mounted,          \* the component is mounted
  clock,            \* the value Date.now() returned last
  fileDialog,       \* the file chooser opened by the Upload button is showing
  chatMessages,     \* useState chatMessages
  isChatLoading,    \* useState isChatLoading
  isChatOpen,       \* useState isChatOpen
  chatPending,      \* handleSendMessage suspended at await chatWithTranscript
  commands,         \* commands issued so far
  deliveredSeq,     \* history: non-empty chunks each recorder has delivered
  abandoned,        \* history: recorders given up by Cancel or Restart
  last,             \* history: the handler that ran last
  lastArg           \* history: the input that handler was given (NoArg = none)

vars == <<appState, errorMsg, segments, summary, mediaRecorderRef, streamRef,
          audioChunks, recState, recOnstop, flushPending, streamOpen, nextId,
          pendingAcq, pendingTimers, transcribing, summarizing, mounted, clock,
          commands, fileDialog, chatMessages, isChatLoading, isChatOpen,
          chatPending, deliveredSeq, abandoned, last, lastArg>>

recorderVars == <<mediaRecorderRef, streamRef, audioChunks, recState, recOnstop,
                  flushPending, streamOpen, nextId, deliveredSeq>>
storeVars == <<segments, summary>>
remoteVars == <<transcribing, summarizing>>
chatVars == <<chatMessages, isChatLoading, isChatOpen, chatPending>>

(* ----------------------------- helpers --------------------------------- *)
Active == {"recording", "paused"}

\* String.prototype.trim
RECURSIVE TrimLeft(_)
TrimLeft(s) == IF s # << >> /\ Head(s) = " " THEN TrimLeft(Tail(s)) ELSE s

RECURSIVE TrimRight(_)
TrimRight(s) ==
  IF s # << >> /\ s[Len(s)] = " " THEN TrimRight(SubSeq(s, 1, Len(s) - 1)) ELSE s

Trim(s) == TrimRight(TrimLeft(s))

\* setState of an unmounted component has no effect
SetState(new, old) == IF mounted THEN new ELSE old

\* stream.getTracks().forEach(track => track.stop())
StopTracks(s) ==
  IF s # 0 /\ streamOpen[s] = "open" THEN [streamOpen EXCEPT ![s] = "closed"]
  ELSE streamOpen

\* MediaRecorder.stop(): new recorder state
StopState(r) ==
  IF recState[r] \in Active THEN [recState EXCEPT ![r] = "inactive"] ELSE recState

\* MediaRecorder.stop(): the queued dataavailable + stop task
StopQueued(r) ==
  IF recState[r] \in Active THEN [flushPending EXCEPT ![r] = TRUE] ELSE flushPending

\* the handler that ran took no input
NoArg == [num |-> 0, text |-> << >>, via |-> ""]

\* JavaScript truthiness of summary: null and "" are falsy
Truthy(t) == t # NullSummary /\ t # << >>

hasContent == Len(segments) > 0 \/ Truthy(summary)

\* the user can press a control of the main page: the page is shown and
\* neither the file chooser nor the chat sheet (absolute inset-0) covers it
UserSees == mounted /\ ~fileDialog /\ ~isChatOpen

\* ... and the run has a command left
UserCan == UserSees /\ commands < MaxCommands

(* ------------------------------- Init ---------------------------------- *)
Init ==
  /\ appState = IDLE
  /\ errorMsg = NoMsg
  /\ segments = << >>
  /\ summary = NullSummary
  /\ mediaRecorderRef = 0
  /\ streamRef = 0
  /\ audioChunks = << >>
  /\ recState = [r \in RecIds |-> "none"]
  /\ recOnstop = [r \in RecIds |-> "null"]
  /\ flushPending = [r \in RecIds |-> FALSE]
  /\ streamOpen = [r \in RecIds |-> "none"]
  /\ nextId = 1
  /\ pendingAcq = 0
  /\ pendingTimers = << >>
  /\ transcribing = << >>
  /\ summarizing = 0
  /\ mounted = TRUE
  /\ clock = 0
  /\ commands = 0
  /\ fileDialog = FALSE
  /\ deliveredSeq = [r \in RecIds |-> << >>]
  /\ abandoned = {}
  /\ chatMessages = << >>
  /\ isChatLoading = FALSE
  /\ isChatOpen = FALSE
  /\ chatPending = << >>
  /\ last = "init"
  /\ lastArg = NoArg

(* --------------------------- initRecording ----------------------------- *)
\* initRecording up to the await: clear the message, stop the tracks of the
\* stream the controller references, call getUserMedia.
initRecordingBody ==
  /\ errorMsg' = SetState(NoMsg, errorMsg)
  /\ streamOpen' = StopTracks(streamRef)
  /\ pendingAcq' = pendingAcq + 1
  /\ UNCHANGED <<appState, storeVars, mediaRecorderRef, streamRef, audioChunks,
                 recState, recOnstop, flushPending, nextId, remoteVars, mounted,
                 clock, deliveredSeq, abandoned, fileDialog>>

\* the Start button: shown when phase is neither RECORDING nor PAUSED,
\* disabled while PROCESSING
initRecording ==
  /\ UserCan
  /\ appState \in {IDLE, ERROR}
  /\ commands' = commands + 1
  /\ initRecordingBody
  /\ pendingTimers' = pendingTimers
  /\ last' = "initRecording"
  /\ lastArg' = NoArg
  /\ UNCHANGED chatVars

\* the setTimeout callback of restartRecording; equal delays fire in order
restartTimer ==
  /\ pendingTimers # << >>
  /\ initRecordingBody
  /\ commands' = commands
  /\ pendingTimers' = Tail(pendingTimers)
  /\ last' = "restartTimer"
  /\ lastArg' = [NoArg EXCEPT !.num = Head(pendingTimers)]
  /\ UNCHANGED chatVars

\* getUserMedia rejects: catch block
initRecordingAcquireFails ==
  /\ pendingAcq > 0
  /\ pendingAcq' = pendingAcq - 1
  /\ errorMsg' = SetState(MicMsg, errorMsg)
  /\ appState' = SetState(ERROR, appState)
  /\ last' = "acquireFails"
  /\ lastArg' = NoArg
  /\ UNCHANGED chatVars
  /\ UNCHANGED <<storeVars, recorderVars, pendingTimers, remoteVars, mounted,
                 clock, commands, abandoned, fileDialog>>

\* getUserMedia resolves but new MediaRecorder(...) (or isTypeSupported) throws
initRecordingCreateFails ==
  /\ pendingAcq > 0
  /\ pendingAcq' = pendingAcq - 1
  /\ streamOpen' = [streamOpen EXCEPT ![nextId] = "open"]
  /\ streamRef' = nextId
  /\ nextId' = nextId + 1
  /\ errorMsg' = SetState(MicMsg, errorMsg)
  /\ appState' = SetState(ERROR, appState)
  /\ last' = "createFails"
  /\ lastArg' = NoArg
  /\ UNCHANGED chatVars
  /\ UNCHANGED <<storeVars, mediaRecorderRef, audioChunks, recState, recOnstop,
                 flushPending, deliveredSeq, pendingTimers, remoteVars, mounted,
                 clock, commands, abandoned, fileDialog>>

\* the recorder is created, the buffer replaced, but mediaRecorder.start() throws
initRecordingStartFails ==
  /\ pendingAcq > 0
  /\ pendingAcq' = pendingAcq - 1
  /\ streamOpen' = [streamOpen EXCEPT ![nextId] = "open"]
  /\ streamRef' = nextId
  /\ mediaRecorderRef' = nextId
  /\ recState' = [recState EXCEPT ![nextId] = "inactive"]
  /\ audioChunks' = << >>
  /\ nextId' = nextId + 1
  /\ errorMsg' = SetState(MicMsg, errorMsg)
  /\ appState' = SetState(ERROR, appState)
  /\ last' = "startFails"
  /\ lastArg' = NoArg
  /\ UNCHANGED chatVars
  /\ UNCHANGED <<storeVars, recOnstop, flushPending, deliveredSeq, pendingTimers,
                 remoteVars, mounted, clock, commands, abandoned, fileDialog>>

\* getUserMedia resolves and the rest of the try block succeeds
initRecordingStarted ==
  /\ pendingAcq > 0
  /\ pendingAcq' = pendingAcq - 1
  /\ streamOpen' = [streamOpen EXCEPT ![nextId] = "open"]
  /\ streamRef' = nextId
  /\ mediaRecorderRef' = nextId
  /\ recState' = [recState EXCEPT ![nextId] = "recording"]
  /\ audioChunks' = << >>
  /\ nextId' = nextId + 1
  /\ appState' = SetState(RECORDING, appState)
  /\ last' = "started"
  /\ lastArg' = NoArg
  /\ UNCHANGED chatVars
  /\ UNCHANGED <<errorMsg, storeVars, recOnstop, flushPending, deliveredSeq,
                 pendingTimers, remoteVars, mounted, clock, commands,
                 abandoned, fileDialog>>

(* ------------------------- pause / resume ------------------------------ *)
\* pauseRecording without the test of the recorder's state
pauseRecordingUnguarded ==
  /\ UserCan
  /\ commands' = commands + 1
  /\ appState = RECORDING
  /\ mediaRecorderRef # 0
  /\ recState' = IF recState[mediaRecorderRef] = "recording"
                 THEN [recState EXCEPT ![mediaRecorderRef] = "paused"]
                 ELSE recState
  /\ appState' = PAUSED
  /\ last' = "pauseRecording"
  /\ lastArg' = NoArg
  /\ UNCHANGED chatVars
  /\ UNCHANGED <<errorMsg, storeVars, mediaRecorderRef, streamRef, audioChunks,
                 recOnstop, flushPending, streamOpen, nextId, deliveredSeq,
                 pendingAcq, pendingTimers, remoteVars, mounted, clock,
                 abandoned, fileDialog>>

\* the Pause button, shown in phase RECORDING
pauseRecording ==
  /\ UserCan
  /\ commands' = commands + 1
  /\ appState = RECORDING
  /\ IF mediaRecorderRef # 0 /\ recState[mediaRecorderRef] = "recording"
     THEN /\ recState' = [recState EXCEPT ![mediaRecorderRef] = "paused"]
          /\ appState' = PAUSED
     ELSE UNCHANGED <<recState, appState>>
  /\ last' = "pauseRecording"
  /\ lastArg' = NoArg
  /\ UNCHANGED chatVars
  /\ UNCHANGED <<errorMsg, storeVars, mediaRecorderRef, streamRef, audioChunks,
                 recOnstop, flushPending, streamOpen, nextId, deliveredSeq,
                 pendingAcq, pendingTimers, remoteVars, mounted, clock,
                 abandoned, fileDialog>>

resumeRecording ==
  /\ UserCan
  /\ commands' = commands + 1
  /\ appState = PAUSED
  /\ IF mediaRecorderRef # 0 /\ recState[mediaRecorderRef] = "paused"
     THEN /\ recState' = [recState EXCEPT ![mediaRecorderRef] = "recording"]
          /\ appState' = RECORDING
     ELSE UNCHANGED <<recState, appState>>
  /\ last' = "resumeRecording"
  /\ lastArg' = NoArg
  /\ UNCHANGED chatVars
  /\ UNCHANGED <<errorMsg, storeVars, mediaRecorderRef, streamRef, audioChunks,
                 recOnstop, flushPending, streamOpen, nextId, deliveredSeq,
                 pendingAcq, pendingTimers, remoteVars, mounted, clock,
                 abandoned, fileDialog>>

(* --------------------- cancel / restart / stop ------------------------- *)
\* cancelRecording stopping the recorder through the finalize path: the
\* resolver is installed as onstop instead of being removed
cancelRecordingFinalizes ==
  /\ UserCan
  /\ commands' = commands + 1
  /\ appState \in {RECORDING, PAUSED}
  /\ mediaRecorderRef # 0
  /\ recOnstop' = [recOnstop EXCEPT ![mediaRecorderRef] = "resolve"]
  /\ recState' = StopState(mediaRecorderRef)
  /\ flushPending' = StopQueued(mediaRecorderRef)
  /\ audioChunks' = << >>
  /\ appState' = IDLE
  /\ abandoned' = abandoned \cup {mediaRecorderRef}
  /\ last' = "cancelRecording"
  /\ lastArg' = NoArg
  /\ UNCHANGED chatVars
  /\ UNCHANGED <<errorMsg, storeVars, mediaRecorderRef, streamRef, streamOpen,
                 nextId, deliveredSeq, pendingAcq, pendingTimers, remoteVars,
                 mounted, clock, fileDialog>>

cancelRecording ==
  /\ UserCan
  /\ commands' = commands + 1
  /\ appState \in {RECORDING, PAUSED}
  /\ IF mediaRecorderRef # 0
     THEN /\ recOnstop' = [recOnstop EXCEPT ![mediaRecorderRef] = "null"]
          /\ recState' = StopState(mediaRecorderRef)
          /\ flushPending' = StopQueued(mediaRecorderRef)
          /\ audioChunks' = << >>
          /\ appState' = IDLE
          /\ abandoned' = abandoned \cup {mediaRecorderRef}
     ELSE UNCHANGED <<recOnstop, recState, flushPending, audioChunks, appState,
                      abandoned>>
  /\ last' = "cancelRecording"
  /\ lastArg' = NoArg
  /\ UNCHANGED chatVars
  /\ UNCHANGED <<errorMsg, storeVars, mediaRecorderRef, streamRef, streamOpen,
                 nextId, deliveredSeq, pendingAcq, pendingTimers, remoteVars,
                 mounted, clock, fileDialog>>

restartRecording ==
  /\ UserCan
  /\ commands' = commands + 1
  /\ appState \in {RECORDING, PAUSED}
  /\ IF mediaRecorderRef # 0
     THEN /\ recOnstop' = [recOnstop EXCEPT ![mediaRecorderRef] = "null"]
          /\ recState' = StopState(mediaRecorderRef)
          /\ flushPending' = StopQueued(mediaRecorderRef)
          /\ audioChunks' = << >>
          /\ abandoned' = abandoned \cup {mediaRecorderRef}
     ELSE UNCHANGED <<recOnstop, recState, flushPending, audioChunks, abandoned>>
  /\ appState' = IDLE
  /\ pendingTimers' = Append(pendingTimers, mediaRecorderRef)
  /\ last' = "restartRecording"
  /\ lastArg' = NoArg
  /\ UNCHANGED chatVars
  /\ UNCHANGED <<errorMsg, storeVars, mediaRecorderRef, streamRef, streamOpen,
                 nextId, deliveredSeq, pendingAcq, remoteVars, mounted, clock,
                 fileDialog>>

\* a variant that builds the audio object when Stop is pressed instead of
\* waiting for the recorder's stop event
stopAndProcessEarly ==
  /\ UserCan
  /\ commands' = commands + 1
  /\ appState \in {RECORDING, PAUSED}
  /\ mediaRecorderRef # 0
  /\ recState' = StopState(mediaRecorderRef)
  /\ flushPending' = StopQueued(mediaRecorderRef)
  /\ transcribing' = Append(transcribing,
        [rec |-> mediaRecorderRef, chunks |-> audioChunks, file |-> 0])
  /\ errorMsg' = NoMsg
  /\ appState' = PROCESSING
  /\ last' = "stopAndProcess"
  /\ lastArg' = NoArg
  /\ UNCHANGED chatVars
  /\ UNCHANGED <<storeVars, mediaRecorderRef, streamRef, audioChunks, recOnstop,
                 streamOpen, nextId, deliveredSeq, pendingAcq, pendingTimers,
                 summarizing, mounted, clock, abandoned, fileDialog>>

\* stopAndProcess: install the resolver as onstop, request the stop, show
\* PROCESSING; the audio object is built by the resolver's continuation
stopAndProcess ==
  /\ UserCan
  /\ commands' = commands + 1
  /\ appState \in {RECORDING, PAUSED}
  /\ IF mediaRecorderRef # 0
     THEN /\ recOnstop' = [recOnstop EXCEPT ![mediaRecorderRef] = "resolve"]
          /\ recState' = StopState(mediaRecorderRef)
          /\ flushPending' = StopQueued(mediaRecorderRef)
          /\ appState' = PROCESSING
     ELSE UNCHANGED <<recOnstop, recState, flushPending, appState>>
  /\ last' = "stopAndProcess"
  /\ lastArg' = NoArg
  /\ UNCHANGED chatVars
  /\ UNCHANGED <<errorMsg, storeVars, mediaRecorderRef, streamRef, audioChunks,
                 streamOpen, nextId, deliveredSeq, pendingAcq, pendingTimers,
                 remoteVars, mounted, clock, abandoned, fileDialog>>

(* ------------------ events delivered by a recorder --------------------- *)
\* mediaRecorder.ondataavailable: a blob of size 0 is dropped
ondataavailable(r, hasData) == IF hasData THEN Append(audioChunks, r) ELSE audioChunks

\* The one task in which a stopping recorder r fires dataavailable and then
\* stop.  When onstop is the resolver of stopAndProcess, its continuation
\* runs in the same task: it builds the Blob from audioChunksRef.current and
\* calls processAudio, which clears the message and awaits the remote call.
DeliverStop(r, hasData) ==
  /\ audioChunks' = ondataavailable(r, hasData)
  /\ deliveredSeq' = IF hasData THEN [deliveredSeq EXCEPT ![r] = Append(@, r)]
                     ELSE deliveredSeq
  /\ IF recOnstop[r] = "resolve"
     THEN /\ transcribing' = Append(transcribing,
                [rec |-> r, chunks |-> ondataavailable(r, hasData), file |-> 0])
          /\ errorMsg' = SetState(NoMsg, errorMsg)
     ELSE UNCHANGED <<transcribing, errorMsg>>

\* the task queued by MediaRecorder.stop()
recorderStopTask(r, hasData) ==
  /\ flushPending[r]
  /\ flushPending' = [flushPending EXCEPT ![r] = FALSE]
  /\ DeliverStop(r, hasData)
  /\ last' = "recorderStopTask"
  /\ lastArg' = NoArg
  /\ UNCHANGED chatVars
  /\ UNCHANGED <<appState, storeVars, mediaRecorderRef, streamRef, recState,
                 recOnstop, streamOpen, nextId, pendingAcq, pendingTimers,
                 summarizing, mounted, clock, commands, abandoned, fileDialog>>

\* the platform ends every track of a stream that is being recorded: the
\* capture device is removed or the permission is revoked during a capture
streamTracksEnded(s) ==
  /\ streamOpen[s] = "open"
  /\ recState[s] \in Active
  /\ streamOpen' = [streamOpen EXCEPT ![s] = "closed"]
  /\ last' = "streamTracksEnded"
  /\ lastArg' = NoArg
  /\ UNCHANGED chatVars
  /\ UNCHANGED <<appState, errorMsg, storeVars, mediaRecorderRef, streamRef,
                 audioChunks, recState, recOnstop, flushPending, nextId,
                 deliveredSeq, pendingAcq, pendingTimers, remoteVars, mounted,
                 clock, commands, abandoned, fileDialog>>

\* the platform stops a recorder whose stream has no live track left
recorderTracksEnded(r, hasData) ==
  /\ recState[r] \in Active
  /\ streamOpen[r] = "closed"
  /\ recState' = [recState EXCEPT ![r] = "inactive"]
  /\ DeliverStop(r, hasData)
  /\ last' = "recorderTracksEnded"
  /\ lastArg' = NoArg
  /\ UNCHANGED chatVars
  /\ UNCHANGED <<appState, storeVars, mediaRecorderRef, streamRef, recOnstop,
                 flushPending, streamOpen, nextId, pendingAcq, pendingTimers,
                 summarizing, mounted, clock, commands, abandoned, fileDialog>>

(* ------------------------ upload / processAudio ------------------------ *)
\* the Upload button: shown when phase is not RECORDING, PAUSED or PROCESSING;
\* it opens the file chooser
openFileDialog ==
  /\ UserCan
  /\ commands' = commands + 1
  /\ appState \notin {RECORDING, PAUSED, PROCESSING}
  /\ fileDialog' = TRUE
  /\ last' = "openFileDialog"
  /\ lastArg' = NoArg
  /\ UNCHANGED chatVars
  /\ UNCHANGED <<appState, errorMsg, storeVars, recorderVars, pendingAcq,
                 pendingTimers, remoteVars, mounted, clock, abandoned>>

\* the chooser is closed without a file: handleFileUpload returns at once
handleFileUploadNoFile ==
  /\ fileDialog
  /\ fileDialog' = FALSE
  /\ last' = "handleFileUploadNoFile"
  /\ lastArg' = NoArg
  /\ UNCHANGED chatVars
  /\ UNCHANGED <<appState, errorMsg, storeVars, recorderVars, pendingAcq,
                 pendingTimers, remoteVars, mounted, clock, commands, abandoned>>

\* handleFileUpload sending the chunk buffer along with the file
handleFileUploadThroughBuffer(size) ==
  /\ fileDialog
  /\ fileDialog' = FALSE
  /\ IF size > MaxUploadSize
     THEN /\ errorMsg' = SetState(TooLargeMsg, errorMsg)
          /\ UNCHANGED <<appState, transcribing>>
     ELSE /\ appState' = SetState(PROCESSING, appState)
          /\ errorMsg' = SetState(NoMsg, errorMsg)
          /\ transcribing' = Append(transcribing,
                [rec |-> 0, chunks |-> audioChunks, file |-> size])
  /\ last' = "handleFileUpload"
  /\ lastArg' = [NoArg EXCEPT !.num = size]
  /\ UNCHANGED chatVars
  /\ UNCHANGED <<storeVars, recorderVars, pendingAcq, pendingTimers, summarizing,
                 mounted, clock, commands, abandoned>>

\* handleFileUpload with the limit test written file.size >= 500 * 1024 * 1024
handleFileUploadInclusive(size) ==
  /\ fileDialog
  /\ fileDialog' = FALSE
  /\ IF size >= MaxUploadSize
     THEN /\ errorMsg' = SetState(TooLargeMsg, errorMsg)
          /\ UNCHANGED <<appState, transcribing>>
     ELSE /\ appState' = SetState(PROCESSING, appState)
          /\ errorMsg' = SetState(NoMsg, errorMsg)
          /\ transcribing' = Append(transcribing,
                [rec |-> 0, chunks |-> << >>, file |-> size])
  /\ last' = "handleFileUpload"
  /\ lastArg' = [NoArg EXCEPT !.num = size]
  /\ UNCHANGED chatVars
  /\ UNCHANGED <<storeVars, recorderVars, pendingAcq, pendingTimers, summarizing,
                 mounted, clock, commands, abandoned>>

\* the change event of the file input; processAudio runs up to its await
handleFileUpload(size) ==
  /\ fileDialog
  /\ fileDialog' = FALSE
  /\ IF size > MaxUploadSize
     THEN /\ errorMsg' = SetState(TooLargeMsg, errorMsg)
          /\ UNCHANGED <<appState, transcribing>>
     ELSE /\ appState' = SetState(PROCESSING, appState)
          /\ errorMsg' = SetState(NoMsg, errorMsg)
          /\ transcribing' = Append(transcribing,
                [rec |-> 0, chunks |-> << >>, file |-> size])
  /\ last' = "handleFileUpload"
  /\ lastArg' = [NoArg EXCEPT !.num = size]
  /\ UNCHANGED chatVars
  /\ UNCHANGED <<storeVars, recorderVars, pendingAcq, pendingTimers, summarizing,
                 mounted, clock, commands, abandoned>>

RemoveAt(s, i) == SubSeq(s, 1, i - 1) \o SubSeq(s, i + 1, Len(s))

\* processAudio putting the new segment in front: [newSegment, ...prev]
processAudioSucceedsPrepends(i, resp, now) ==
  /\ i \in DOMAIN transcribing
  /\ resp # << >>
  /\ now >= clock
  /\ clock' = now
  /\ transcribing' = RemoveAt(transcribing, i)
  /\ segments' = SetState(<<[id |-> now, text |-> Trim(resp), timestamp |-> now]>>
        \o segments, segments)
  /\ appState' = SetState(IDLE, appState)
  /\ last' = "processAudioSucceeds"
  /\ lastArg' = [NoArg EXCEPT !.text = resp]
  /\ UNCHANGED chatVars
  /\ UNCHANGED <<errorMsg, summary, recorderVars, pendingAcq, pendingTimers,
                 summarizing, mounted, commands, abandoned, fileDialog>>

\* transcribeAudioToUrdu returns text.trim(); processAudio appends a segment
\* stamped with Date.now(), which never runs backwards
processAudioSucceeds(i, resp, now) ==
  /\ i \in DOMAIN transcribing
  /\ resp # << >>
  /\ now >= clock
  /\ clock' = now
  /\ transcribing' = RemoveAt(transcribing, i)
  /\ segments' = SetState(Append(segments,
        [id |-> now, text |-> Trim(resp), timestamp |-> now]), segments)
  /\ appState' = SetState(IDLE, appState)
  /\ last' = "processAudioSucceeds"
  /\ lastArg' = [NoArg EXCEPT !.text = resp]
  /\ UNCHANGED chatVars
  /\ UNCHANGED <<errorMsg, summary, recorderVars, pendingAcq, pendingTimers,
                 summarizing, mounted, commands, abandoned, fileDialog>>

\* processAudio storing an empty segment from its catch block
processAudioFailsStoresEmpty(i) ==
  /\ i \in DOMAIN transcribing
  /\ transcribing' = RemoveAt(transcribing, i)
  /\ errorMsg' = SetState(TranscribeMsg, errorMsg)
  /\ segments' = SetState(Append(segments,
        [id |-> clock, text |-> << >>, timestamp |-> clock]), segments)
  /\ appState' = SetState(IDLE, appState)
  /\ last' = "processAudioFails"
  /\ lastArg' = NoArg
  /\ UNCHANGED chatVars
  /\ UNCHANGED <<summary, recorderVars, pendingAcq, pendingTimers, summarizing,
                 mounted, clock, commands, abandoned, fileDialog>>

\* the remote call rejects, or response.text is empty: catch block
processAudioFails(i) ==
  /\ i \in DOMAIN transcribing
  /\ transcribing' = RemoveAt(transcribing, i)
  /\ errorMsg' = SetState(TranscribeMsg, errorMsg)
  /\ appState' = SetState(IDLE, appState)
  /\ last' = "processAudioFails"
  /\ lastArg' = NoArg
  /\ UNCHANGED chatVars
  /\ UNCHANGED <<storeVars, recorderVars, pendingAcq, pendingTimers, summarizing,
                 mounted, clock, commands, abandoned, fileDialog>>

(* ----------------------------- summarize ------------------------------- *)

\* handleSummarize without its segments.length === 0 return
handleSummarizeUnguarded ==
  /\ UserCan
  /\ commands' = commands + 1
  /\ hasContent
  /\ appState \notin {RECORDING, PAUSED, PROCESSING}
  /\ IF FALSE
     THEN UNCHANGED <<appState, summarizing>>
     ELSE /\ appState' = PROCESSING
          /\ summarizing' = summarizing + 1
  /\ last' = "handleSummarize"
  /\ lastArg' = NoArg
  /\ UNCHANGED chatVars
  /\ UNCHANGED <<errorMsg, storeVars, recorderVars, pendingAcq, pendingTimers,
                 transcribing, mounted, clock, abandoned, fileDialog>>

handleSummarize ==
  /\ UserCan
  /\ commands' = commands + 1
  /\ hasContent
  /\ appState \notin {RECORDING, PAUSED, PROCESSING}
  /\ IF Len(segments) = 0
     THEN UNCHANGED <<appState, summarizing>>
     ELSE /\ appState' = PROCESSING
          /\ summarizing' = summarizing + 1
  /\ last' = "handleSummarize"
  /\ lastArg' = NoArg
  /\ UNCHANGED chatVars
  /\ UNCHANGED <<errorMsg, storeVars, recorderVars, pendingAcq, pendingTimers,
                 transcribing, mounted, clock, abandoned, fileDialog>>

\* summarizeUrduContent: an empty response.text yields the fixed text
summarizeUrduContent(resp) == IF resp = << >> THEN NoSummaryText ELSE Trim(resp)

handleSummarizeSucceeds(resp) ==
  /\ summarizing > 0
  /\ summarizing' = summarizing - 1
  /\ summary' = SetState(summarizeUrduContent(resp), summary)
  /\ appState' = SetState(IDLE, appState)
  /\ last' = "handleSummarizeSucceeds"
  /\ lastArg' = [NoArg EXCEPT !.text = resp]
  /\ UNCHANGED chatVars
  /\ UNCHANGED <<errorMsg, segments, recorderVars, pendingAcq, pendingTimers,
                 transcribing, mounted, clock, commands, abandoned, fileDialog>>

handleSummarizeFails ==
  /\ summarizing > 0
  /\ summarizing' = summarizing - 1
  /\ errorMsg' = SetState(SummarizeMsg, errorMsg)
  /\ appState' = SetState(IDLE, appState)
  /\ last' = "handleSummarizeFails"
  /\ lastArg' = NoArg
  /\ UNCHANGED chatVars
  /\ UNCHANGED <<storeVars, recorderVars, pendingAcq, pendingTimers, transcribing,
                 mounted, clock, commands, abandoned, fileDialog>>

(* ------------------------- transcript store ---------------------------- *)

\* handleDeleteSegment dropping the card and every card above it
handleDeleteSegmentAndEarlier(i) ==
  /\ UserSees
  /\ i \in DOMAIN segments
  /\ segments' = SubSeq(segments, i + 1, Len(segments))
  /\ last' = "handleDeleteSegment"
  /\ lastArg' = [NoArg EXCEPT !.num = segments[i].id]
  /\ UNCHANGED <<appState, errorMsg, summary, recorderVars, pendingAcq,
                 pendingTimers, remoteVars, mounted, clock, commands, abandoned,
                 fileDialog, chatVars>>

\* the delete button of the i-th transcript card: handleDeleteSegment(segment.id)
handleDeleteSegment(i) ==
  /\ UserSees
  /\ i \in DOMAIN segments
  /\ segments' = SelectSeq(segments, LAMBDA s : s.id # segments[i].id)
  /\ last' = "handleDeleteSegment"
  /\ lastArg' = [NoArg EXCEPT !.num = segments[i].id]
  /\ UNCHANGED <<appState, errorMsg, summary, recorderVars, pendingAcq,
                 pendingTimers, remoteVars, mounted, clock, commands, abandoned,
                 fileDialog, chatVars>>

\* the delete button of the summary card: setSummary(null)
dismissSummary ==
  /\ UserSees
  /\ Truthy(summary)
  /\ summary' = NullSummary
  /\ last' = "dismissSummary"
  /\ lastArg' = NoArg
  /\ UNCHANGED <<appState, errorMsg, segments, recorderVars, pendingAcq,
                 pendingTimers, remoteVars, mounted, clock, commands, abandoned,
                 fileDialog, chatVars>>

\* Clear All without setChatMessages([])
clearAllKeepsChat ==
  /\ UserSees
  /\ hasContent
  /\ segments' = << >>
  /\ summary' = NullSummary
  /\ chatMessages' = chatMessages
  /\ last' = "clearAll"
  /\ lastArg' = NoArg
  /\ UNCHANGED <<appState, errorMsg, recorderVars, pendingAcq, pendingTimers,
                 remoteVars, mounted, clock, commands, abandoned, fileDialog,
                 isChatLoading, isChatOpen, chatPending>>

\* the Clear All button, shown when hasContent, with window.confirm accepted
clearAll ==
  /\ UserSees
  /\ hasContent
  /\ segments' = << >>
  /\ summary' = NullSummary
  /\ chatMessages' = << >>
  /\ last' = "clearAll"
  /\ lastArg' = NoArg
  /\ UNCHANGED <<appState, errorMsg, recorderVars, pendingAcq, pendingTimers,
                 remoteVars, mounted, clock, commands, abandoned, fileDialog,
                 isChatLoading, isChatOpen, chatPending>>

(* -------------------------------- chat --------------------------------- *)
\* the Ask AI button of the action row
openChat ==
  /\ UserSees
  /\ hasContent
  /\ appState \notin {RECORDING, PAUSED, PROCESSING}
  /\ isChatOpen' = TRUE
  /\ last' = "openChat"
  /\ lastArg' = NoArg
  /\ UNCHANGED <<appState, errorMsg, storeVars, recorderVars, pendingAcq,
                 pendingTimers, remoteVars, mounted, clock, commands, abandoned,
                 fileDialog, chatMessages, isChatLoading, chatPending>>

\* the close button of the chat sheet
closeChat ==
  /\ mounted
  /\ isChatOpen
  /\ isChatOpen' = FALSE
  /\ last' = "closeChat"
  /\ lastArg' = NoArg
  /\ UNCHANGED <<appState, errorMsg, storeVars, recorderVars, pendingAcq,
                 pendingTimers, remoteVars, mounted, clock, commands, abandoned,
                 fileDialog, chatMessages, isChatLoading, chatPending>>

\* Array.prototype.join
RECURSIVE Join(_, _)
Join(texts, sep) ==
  IF texts = << >> THEN << >>
  ELSE IF Len(texts) = 1 THEN texts[1]
  ELSE texts[1] \o sep \o Join(Tail(texts), sep)

\* a context that leaves the summary out
ChatContextTranscriptsOnly ==
  Join([k \in DOMAIN segments |-> segments[k].text], <<"\n">>)

\* the context handleSendMessage builds from the rendered store
ChatContext ==
  LET allText == Join([k \in DOMAIN segments |-> segments[k].text], <<"\n">>)
  IN  IF Truthy(summary)
      THEN <<"Summary: ">> \o summary \o <<"\n\nTranscripts:\n">> \o allText
      ELSE allText

\* handleSendMessage without the isChatLoading test
handleSendMessageReentrant(input, now) ==
  /\ mounted
  /\ isChatOpen
  /\ commands < MaxCommands
  /\ commands' = commands + 1
  /\ now >= clock
  /\ IF Trim(input) = << >>
     THEN UNCHANGED <<chatMessages, isChatLoading, chatPending, clock>>
     ELSE /\ clock' = now
          /\ chatMessages' = Append(chatMessages,
                [id |-> now, role |-> "user", text |-> input, timestamp |-> now])
          /\ isChatLoading' = TRUE
          /\ chatPending' = Append(chatPending,
                [context |-> ChatContext, question |-> input])
  /\ last' = "handleSendMessage"
  /\ lastArg' = [NoArg EXCEPT !.text = input]
  /\ UNCHANGED <<appState, errorMsg, storeVars, recorderVars, pendingAcq,
                 pendingTimers, remoteVars, mounted, abandoned, fileDialog,
                 isChatOpen>>

\* submit of the chat form with the typed input, up to the await
handleSendMessage(input, now) ==
  /\ mounted
  /\ isChatOpen
  /\ commands < MaxCommands
  /\ commands' = commands + 1
  /\ now >= clock
  /\ IF Trim(input) = << >> \/ isChatLoading
     THEN UNCHANGED <<chatMessages, isChatLoading, chatPending, clock>>
     ELSE /\ clock' = now
          /\ chatMessages' = Append(chatMessages,
                [id |-> now, role |-> "user", text |-> input, timestamp |-> now])
          /\ isChatLoading' = TRUE
          /\ chatPending' = Append(chatPending,
                [context |-> ChatContext, question |-> input])
  /\ last' = "handleSendMessage"
  /\ lastArg' = [NoArg EXCEPT !.text = input]
  /\ UNCHANGED <<appState, errorMsg, storeVars, recorderVars, pendingAcq,
                 pendingTimers, remoteVars, mounted, abandoned, fileDialog,
                 isChatOpen>>

\* chatWithTranscript: an empty response.text yields the fixed text
chatWithTranscript(resp) == IF resp = << >> THEN NoAnswerText ELSE resp

\* the remote call resolves: the answer is appended, the flag cleared
handleSendMessageAnswered(resp, now) ==
  /\ chatPending # << >>
  /\ now >= clock
  /\ clock' = now
  /\ chatPending' = Tail(chatPending)
  /\ chatMessages' = SetState(Append(chatMessages,
        [id |-> now + 1, role |-> "ai", text |-> chatWithTranscript(resp),
         timestamp |-> now]), chatMessages)
  /\ isChatLoading' = SetState(FALSE, isChatLoading)
  /\ last' = "handleSendMessageAnswered"
  /\ lastArg' = [NoArg EXCEPT !.text = resp]
  /\ UNCHANGED <<appState, errorMsg, storeVars, recorderVars, pendingAcq,
                 pendingTimers, remoteVars, mounted, commands, abandoned,
                 fileDialog, isChatOpen>>

\* handleSendMessage with a catch block that appends nothing
handleSendMessageFailsSilently(now) ==
  /\ chatPending # << >>
  /\ now >= clock
  /\ clock' = now
  /\ chatPending' = Tail(chatPending)
  /\ chatMessages' = chatMessages
  /\ isChatLoading' = SetState(FALSE, isChatLoading)
  /\ last' = "handleSendMessageFails"
  /\ lastArg' = NoArg
  /\ UNCHANGED <<appState, errorMsg, storeVars, recorderVars, pendingAcq,
                 pendingTimers, remoteVars, mounted, commands, abandoned,
                 fileDialog, isChatOpen>>

\* the remote call rejects: catch block appends the apology
handleSendMessageFails(now) ==
  /\ chatPending # << >>
  /\ now >= clock
  /\ clock' = now
  /\ chatPending' = Tail(chatPending)
  /\ chatMessages' = SetState(Append(chatMessages,
        [id |-> now + 1, role |-> "ai", text |-> SorryText, timestamp |-> now]),
        chatMessages)
  /\ isChatLoading' = SetState(FALSE, isChatLoading)
  /\ last' = "handleSendMessageFails"
  /\ lastArg' = NoArg
  /\ UNCHANGED <<appState, errorMsg, storeVars, recorderVars, pendingAcq,
                 pendingTimers, remoteVars, mounted, commands, abandoned,
                 fileDialog, isChatOpen>>

(* ------------------------------- export -------------------------------- *)
\* an export text that numbers the segments from 0
ExportTextFromZero ==
  LET allText == Join([k \in DOMAIN segments |->
                         <<"Segment ", ToString(k - 1), ":\n">> \o segments[k].text],
                      <<"\n\n">>)
  IN  IF Truthy(summary)
      THEN <<"--- SUMMARY ---\n">> \o summary \o <<"\n\n--- TRANSCRIPTS ---\n">>
             \o allText
      ELSE allText

\* the text handleExport composes from the rendered store
ExportText ==
  LET allText == Join([k \in DOMAIN segments |->
                         <<"Segment ", ToString(k), ":\n">> \o segments[k].text],
                      <<"\n\n">>)
  IN  IF Truthy(summary)
      THEN <<"--- SUMMARY ---\n">> \o summary \o <<"\n\n--- TRANSCRIPTS ---\n">>
             \o allText
      ELSE allText

\* the Export button of the action row; share tells whether navigator.share
\* exists
handleExport(share) ==
  /\ UserSees
  /\ hasContent
  /\ appState \notin {RECORDING, PAUSED, PROCESSING}
  /\ last' = "handleExport"
  /\ lastArg' = [num |-> IF share THEN 1 ELSE 0, text |-> ExportText,
                 via |-> IF share THEN "share" ELSE "clipboard"]
  /\ UNCHANGED <<appState, errorMsg, storeVars, recorderVars, pendingAcq,
                 pendingTimers, remoteVars, mounted, clock, commands, abandoned,
                 fileDialog, chatVars>>

(* ------------------------------ unmount -------------------------------- *)
\* cleanup of the mount effect
unmount ==
  /\ mounted
  /\ mounted' = FALSE
  /\ streamOpen' = StopTracks(streamRef)
  /\ last' = "unmount"
  /\ lastArg' = NoArg
  /\ UNCHANGED chatVars
  /\ UNCHANGED <<appState, errorMsg, storeVars, mediaRecorderRef, streamRef,
                 audioChunks, recState, recOnstop, flushPending, nextId,
                 deliveredSeq, pendingAcq, pendingTimers, remoteVars, clock,
                 commands, abandoned, fileDialog>>

(* ------------------------------- Next ---------------------------------- *)
Next ==
  \/ initRecording
  \/ restartTimer
  \/ initRecordingAcquireFails
  \/ initRecordingCreateFails
  \/ initRecordingStartFails
  \/ initRecordingStarted
  \/ pauseRecording
  \/ resumeRecording
  \/ cancelRecording
  \/ restartRecording
  \/ stopAndProcess
  \/ \E r \in RecIds, hasData \in BOOLEAN : recorderStopTask(r, hasData)
  \/ \E s \in RecIds : streamTracksEnded(s)
  \/ \E r \in RecIds, hasData \in BOOLEAN : recorderTracksEnded(r, hasData)
  \/ openFileDialog
  \/ handleFileUploadNoFile
  \/ \E size \in FileSizes : handleFileUpload(size)
  \/ \E i \in 1..MaxCommands, resp \in RawTexts, now \in 0..MaxClock :
        processAudioSucceeds(i, resp, now)
  \/ \E i \in 1..MaxCommands : processAudioFails(i)
  \/ handleSummarize
  \/ \E resp \in RawTexts : handleSummarizeSucceeds(resp)
  \/ handleSummarizeFails
  \/ \E i \in 1..MaxCommands : handleDeleteSegment(i)
  \/ dismissSummary
  \/ clearAll
  \/ openChat
  \/ closeChat
  \/ \E input \in ChatInputs, now \in 0..MaxClock : handleSendMessage(input, now)
  \/ \E resp \in ChatTexts, now \in 0..MaxClock :
        handleSendMessageAnswered(resp, now)
  \/ \E now \in 0..MaxClock : handleSendMessageFails(now)
  \/ \E share \in BOOLEAN : handleExport(share)
  \/ unmount

Spec == Init /\ [][Next]_vars

(* ------------------------------ fairness ------------------------------- *)
\* getUserMedia settles: the awaiting initRecording resumes in its try or catch
getUserMediaSettles ==
  \/ initRecordingAcquireFails
  \/ initRecordingCreateFails
  \/ initRecordingStartFails
  \/ initRecordingStarted

\* a stopping recorder fires its dataavailable and stop events
recorderDelivers ==
  \E r \in RecIds, hasData \in BOOLEAN :
    recorderStopTask(r, hasData) \/ recorderTracksEnded(r, hasData)

\* await transcribeAudioToUrdu settles
transcriptionSettles ==
  \E i \in 1..MaxCommands :
    \/ \E resp \in RawTexts, now \in 0..MaxClock : processAudioSucceeds(i, resp, now)
    \/ processAudioFails(i)

\* await summarizeUrduContent settles
summarySettles ==
  \/ \E resp \in RawTexts : handleSummarizeSucceeds(resp)
  \/ handleSummarizeFails

\* await chatWithTranscript settles
chatSettles ==
  \/ \E resp \in ChatTexts, now \in 0..MaxClock : handleSendMessageAnswered(resp, now)
  \/ \E now \in 0..MaxClock : handleSendMessageFails(now)

\* timers fire, promises settle and queued tasks run; the user and the
\* unmount are under no obligation
FairSpec ==
  /\ Spec
  /\ WF_vars(restartTimer)
  /\ WF_vars(getUserMediaSettles)
  /\ WF_vars(recorderDelivers)
  /\ WF_vars(transcriptionSettles)
  /\ WF_vars(summarySettles)
  /\ WF_vars(chatSettles)

(* ======================== properties ==================================== *)
Requests == {transcribing[i] : i \in DOMAIN transcribing}
OpenStreams == {s \in RecIds : streamOpen[s] = "open"}
StopFired(r) == recState[r] = "inactive" /\ ~flushPending[r]
FromRecorder(seq, r) == SelectSeq(seq, LAMBDA c : c = r)

\* C1: an audio object handed to transcription on behalf of a recording is
\* built only after that recorder's stop event has fired, and the chunks of
\* that recorder in it are exactly the chunks the recorder delivered, each
\* once and in delivery order.
C1_AssembledAfterStop ==
  \A q \in Requests :
    q.rec # 0 => /\ StopFired(q.rec)
                 /\ FromRecorder(q.chunks, q.rec) = deliveredSeq[q.rec]

C1_Witness ==
  \E q \in Requests :
    /\ q.rec # 0
    /\ deliveredSeq[q.rec] # << >>
    /\ last = "recorderStopTask"

\* C2: the audio object built by Stop-and-finalize holds only chunks of the
\* recording being finalized.
C2_OnlyOwnChunks ==
  \A q \in Requests :
    q.rec # 0 => \A k \in DOMAIN q.chunks : q.chunks[k] = q.rec

\* C3: a Cancel or Restart step starts no transcription and appends no
\* segment, and no transcription is ever started on behalf of a recorder
\* that was cancelled or restarted, whatever events it delivers later.
C3_CancelNeverTranscribes ==
  [][ /\ last' \in {"cancelRecording", "restartRecording"}
         => UNCHANGED <<transcribing, segments>>
      /\ \A i \in DOMAIN transcribing' : transcribing'[i].rec \notin abandoned'
    ]_vars

C3_Witness ==
  \E r \in abandoned : StopFired(r) /\ deliveredSeq[r] # << >>

\* C4: the chunk buffer is non-empty only in RECORDING, PAUSED or PROCESSING.
C4_BufferOnlyWhileBusy ==
  audioChunks # << >> => appState \in {RECORDING, PAUSED, PROCESSING}

\* C5: a capture stream is open only in RECORDING or PAUSED, or in IDLE
\* while a Start acquisition is in flight.
C5_StreamOnlyWhileCapturing ==
  OpenStreams # {} =>
    \/ appState \in {RECORDING, PAUSED}
    \/ appState = IDLE /\ pendingAcq > 0

\* C6: at most one capture stream is open, and no recorder captures on a
\* stream other than the one the controller references.
C6_AtMostOneStream ==
  /\ Cardinality(OpenStreams) <= 1
  /\ \A r \in RecIds : recState[r] \in Active => streamRef = r

\* C7: right after teardown no stream the controller acquired is open.
C7_TeardownReleasesAll ==
  last = "unmount" => OpenStreams = {}

AllowedTransitions ==
  { <<IDLE, RECORDING>>, <<IDLE, ERROR>>, <<ERROR, RECORDING>>,
    <<RECORDING, PAUSED>>, <<PAUSED, RECORDING>>,
    <<RECORDING, IDLE>>, <<PAUSED, IDLE>>,
    <<RECORDING, PROCESSING>>, <<PAUSED, PROCESSING>>,
    <<IDLE, PROCESSING>>, <<PROCESSING, IDLE>> }

\* C8: every change of phase is one of the listed transitions.
C8_OnlyListedTransitions ==
  [][appState' # appState => <<appState, appState'>> \in AllowedTransitions]_vars

StartFailures == {"acquireFails", "createFails", "startFails"}

\* C9: ERROR is entered only from IDLE and only by a failed Start; a failed
\* transcription or summarization leaves the phase IDLE.
C9_ErrorOnlyFromIdle ==
  [][ /\ (appState' = ERROR /\ appState # ERROR)
         => (appState = IDLE /\ last' \in StartFailures)
      /\ (mounted /\ last' \in {"processAudioFails", "handleSummarizeFails"})
         => appState' = IDLE
    ]_vars

\* C10: after a failed Start the phase is ERROR, the failure message is set
\* and no capture stream is open.
C10_FailedStartHoldsNoStream ==
  (mounted /\ last \in StartFailures) =>
    /\ appState = ERROR
    /\ errorMsg = MicMsg
    /\ OpenStreams = {}

(* ---------------------- transcript store and chat ----------------------- *)
Range(seq) == {seq[k] : k \in DOMAIN seq}
IsPrefix(seq, longer) ==
  Len(seq) <= Len(longer) /\ SubSeq(longer, 1, Len(seq)) = seq

\* C11: when a transcription succeeds, exactly one new segment carrying the
\* returned (trimmed) text is appended at the end of the segment list, the
\* segments already stored are unchanged and keep their order, and phase
\* returns to Idle.
C11_SuccessAppendsOneSegment ==
  [][(last' = "processAudioSucceeds" /\ mounted) =>
       /\ Len(segments') = Len(segments) + 1
       /\ IsPrefix(segments, segments')
       /\ segments'[Len(segments')].text = Trim(lastArg'.text)
       /\ appState' = IDLE]_vars

C11_Witness ==
  /\ last = "processAudioSucceeds"
  /\ mounted
  /\ Len(segments) = 2
  /\ segments[2].text = Trim(lastArg.text)
  /\ segments[1].text # segments[2].text
  /\ appState = IDLE

\* C12: when a transcription fails, no segment is appended, the segment list,
\* summary and chat log are unchanged, an error message is surfaced and phase
\* returns to Idle.
C12_FailureStoresNothing ==
  [][(last' = "processAudioFails" /\ mounted) =>
       /\ segments' = segments
       /\ summary' = summary
       /\ chatMessages' = chatMessages
       /\ errorMsg' = TranscribeMsg
       /\ appState' = IDLE]_vars

C12_Witness ==
  /\ last = "processAudioFails"
  /\ mounted
  /\ Len(segments) > 0
  /\ errorMsg = TranscribeMsg
  /\ appState = IDLE

\* C13: a supplied file larger than 500 MiB is rejected with a message and
\* nothing else changes (phase, segments, summary, chat log, no transcription
\* request); a file of exactly 500 MiB is accepted and handed to transcription.
C13_UploadLimit ==
  [][(last' = "handleFileUpload" /\ mounted) =>
       IF lastArg'.num > 500 * 1024 * 1024
       THEN /\ errorMsg' = TooLargeMsg
            /\ UNCHANGED <<appState, segments, summary, chatMessages,
                           transcribing>>
       ELSE /\ appState' = PROCESSING
            /\ transcribing' = Append(transcribing,
                  [rec |-> 0, chunks |-> << >>, file |-> lastArg'.num])]_vars

C13_Witness ==
  /\ last = "handleFileUpload"
  /\ mounted
  /\ lastArg.num = 500 * 1024 * 1024 + 1
  /\ errorMsg = TooLargeMsg
  /\ Len(segments) > 0

\* C14: Summarize issued when the segment list is empty is a no-op: no
\* summarization request is made and phase, summary, segment list and error
\* message are unchanged.
C14_SummarizeEmptyIsNoOp ==
  [][(last' = "handleSummarize" /\ Len(segments) = 0) =>
       UNCHANGED <<summarizing, appState, summary, segments, errorMsg>>]_vars

C14_Witness ==
  /\ last = "handleSummarize"
  /\ Len(segments) = 0
  /\ Truthy(summary)
  /\ summarizing = 0

\* C15: when a summarization request fails (the remote call errors or returns
\* an empty response), phase returns to Idle with an error message surfaced and
\* the segment list and any previously stored summary are unchanged.
C15_FailedSummaryKeepsData ==
  [][(/\ mounted
      /\ \/ last' = "handleSummarizeFails"
         \/ last' = "handleSummarizeSucceeds" /\ lastArg'.text = << >>) =>
       /\ appState' = IDLE
       /\ errorMsg' = SummarizeMsg
       /\ UNCHANGED <<segments, summary>>]_vars

\* C16: deleting by id removes at most one entry from the segment list, namely
\* the entry with that id, and when no entry has that id the list is unchanged.
C16_DeleteRemovesAtMostOne ==
  [][last' = "handleDeleteSegment" =>
       /\ Len(segments') >= Len(segments) - 1
       /\ segments' = SelectSeq(segments, LAMBDA s : s \in Range(segments'))
       /\ \A k \in DOMAIN segments :
            segments[k] \notin Range(segments') => segments[k].id = lastArg'.num
       /\ (\A k \in DOMAIN segments : segments[k].id # lastArg'.num)
            => segments' = segments]_vars

\* C17: Clear All leaves the segment list empty, the summary absent and the
\* chat log empty, all in one step, from any state in which it can be issued.
C17_ClearAllEmptiesEverything ==
  [][last' = "clearAll" =>
       /\ segments' = << >>
       /\ summary' = NullSummary
       /\ chatMessages' = << >>]_vars

C17_Witness ==
  /\ last = "clearAll"
  /\ isChatLoading
  /\ chatPending # << >>
  /\ chatPending[1].context # << >>
  /\ segments = << >>
  /\ chatMessages = << >>

\* C18: a stored segment's id, text and timestamp never change, and a segment
\* leaves the list only through a delete with its id or through Clear All;
\* every other step keeps the stored segments, in order, as a prefix of the
\* list.
C18_SegmentsImmutable ==
  [][CASE last' = "clearAll" -> TRUE
       [] last' = "handleDeleteSegment" ->
            /\ segments' = SelectSeq(segments, LAMBDA s : s \in Range(segments'))
            /\ \A k \in DOMAIN segments :
                 segments[k] \notin Range(segments') => segments[k].id = lastArg'.num
       [] OTHER -> IsPrefix(segments, segments')]_vars

C18_Witness ==
  /\ last = "handleDeleteSegment"
  /\ Len(segments) = 1
  /\ segments[1].id # lastArg.num
  /\ Truthy(summary)

\* C19: in every reachable state the chat log is well-formed: user and
\* assistant messages alternate starting with a user message, so every
\* assistant message is immediately preceded by the user message it answers,
\* and the only unanswered user message is the last one while its answer is
\* outstanding.
C19_ChatLogWellFormed ==
  mounted =>
    /\ \A k \in DOMAIN chatMessages :
         chatMessages[k].role = (IF k % 2 = 1 THEN "user" ELSE "ai")
    /\ (Len(chatMessages) % 2 = 1) => (chatPending # << >>)

\* C20: at most one question is outstanding at any time: an Ask submitted
\* while an answer is outstanding appends no message and issues no remote call.
C20_OneOutstandingQuestion ==
  /\ [](Len(chatPending) <= 1)
  /\ [][(last' = "handleSendMessage" /\ chatPending # << >>) =>
          UNCHANGED <<chatMessages, chatPending, isChatLoading>>]_vars

C20_Witness ==
  /\ last = "handleSendMessage"
  /\ Trim(lastArg.text) # << >>
  /\ chatPending # << >>
  /\ chatPending[1].question # lastArg.text
  /\ Len(chatMessages) = 1

(* ------------------------------ liveness -------------------------------- *)
\* C21: every accepted Ask appends its user message in the same step and is
\* eventually followed by exactly one assistant message, the answer when the
\* remote call succeeds with a text and a placeholder when it fails or returns
\* nothing; the settling step clears the outstanding-answer flag and changes
\* neither the error message nor the phase.
C21_AskIsAnswered ==
  /\ [][(last' = "handleSendMessage" /\ Trim(lastArg'.text) # << >>
           /\ ~isChatLoading) =>
          /\ Len(chatMessages') = Len(chatMessages) + 1
          /\ IsPrefix(chatMessages, chatMessages')
          /\ chatMessages'[Len(chatMessages')].role = "user"
          /\ chatMessages'[Len(chatMessages')].text = lastArg'.text
          /\ Len(chatPending') = Len(chatPending) + 1]_vars
  /\ [][(mounted /\ last' \in {"handleSendMessageAnswered",
                               "handleSendMessageFails"}) =>
          /\ Len(chatMessages') = Len(chatMessages) + 1
          /\ IsPrefix(chatMessages, chatMessages')
          /\ chatMessages'[Len(chatMessages')].role = "ai"
          /\ chatMessages'[Len(chatMessages')].text =
               (IF last' = "handleSendMessageFails" THEN SorryText
                ELSE IF lastArg'.text = << >> THEN NoAnswerText
                ELSE lastArg'.text)
          /\ Len(chatPending') = Len(chatPending) - 1
          /\ isChatLoading' = FALSE
          /\ UNCHANGED <<errorMsg, appState>>]_vars
  /\ (mounted /\ chatPending # << >>) ~> (chatPending = << >> \/ ~mounted)

C21_Witness ==
  /\ last = "handleSendMessageFails"
  /\ mounted
  /\ Len(chatMessages) = 2
  /\ chatMessages[1].role = "user"
  /\ chatMessages[2].text = SorryText
  /\ ~isChatLoading
  /\ chatPending = << >>

\* C22: the context sent with a question is the snapshot of the store taken
\* when the question is asked: all current segment texts in store order,
\* prefixed by the summary when one exists; a request in flight is changed by
\* no later step (delete, append, Clear All), and a later question gets the
\* store of its own time.
C22_ContextIsSnapshot ==
  /\ [][(last' = "handleSendMessage" /\ chatPending' # chatPending) =>
          /\ IsPrefix(chatPending, chatPending')
          /\ Len(chatPending') = Len(chatPending) + 1
          /\ chatPending'[Len(chatPending')].question = lastArg'.text
          /\ chatPending'[Len(chatPending')].context =
               (IF summary # NullSummary /\ summary # << >>
                THEN <<"Summary: ">> \o summary \o <<"\n\nTranscripts:\n">>
                ELSE << >>)
               \o Join([k \in DOMAIN segments |-> segments[k].text], <<"\n">>)
       ]_vars
  /\ [][(last' # "handleSendMessage" /\ chatPending' # chatPending) =>
          /\ last' \in {"handleSendMessageAnswered", "handleSendMessageFails"}
          /\ chatPending' = Tail(chatPending)]_vars

C22_Witness ==
  /\ last = "handleDeleteSegment"
  /\ chatPending # << >>
  /\ chatPending[1].context # << >>
  /\ Head(chatPending[1].context) = "Summary: "
  /\ chatPending[1].context # ChatContext
  /\ segments = << >>

\* C23: in every reachable state the stored segments have pairwise distinct
\* ids, also when two transcriptions complete at the same clock value.
C23_SegmentIdsDistinct ==
  \A i, j \in DOMAIN segments : i # j => segments[i].id # segments[j].id

\* C24: Pause acts only on a recording recorder and Resume only on a paused
\* one, otherwise they change nothing; neither touches the chunk buffer, and a
\* chunk a recorder delivers is appended after the chunks already buffered.
C24_PauseResumeInOrder ==
  [][/\ last' = "pauseRecording" =>
          IF mediaRecorderRef # 0 /\ recState[mediaRecorderRef] = "recording"
          THEN /\ recState' = [recState EXCEPT ![mediaRecorderRef] = "paused"]
               /\ appState' = PAUSED
               /\ UNCHANGED <<audioChunks, deliveredSeq, mediaRecorderRef>>
          ELSE UNCHANGED <<appState, errorMsg, storeVars, recorderVars>>
     /\ last' = "resumeRecording" =>
          IF mediaRecorderRef # 0 /\ recState[mediaRecorderRef] = "paused"
          THEN /\ recState' = [recState EXCEPT ![mediaRecorderRef] = "recording"]
               /\ appState' = RECORDING
               /\ UNCHANGED <<audioChunks, deliveredSeq, mediaRecorderRef>>
          ELSE UNCHANGED <<appState, errorMsg, storeVars, recorderVars>>
     /\ last' \in {"recorderStopTask", "recorderTracksEnded"} =>
          IsPrefix(audioChunks, audioChunks')]_vars

C24_Witness ==
  /\ last = "pauseRecording"
  /\ appState = RECORDING
  /\ mediaRecorderRef # 0
  /\ recState[mediaRecorderRef] = "inactive"
  /\ audioChunks # << >>

\* C25: Restart discards the buffer, sets phase Idle and schedules Start
\* exactly once; when the delayed Start runs, the stream of the restarted
\* recording has been released before the new acquisition is requested, and
\* phase eventually becomes Recording with an empty buffer, or Error.
C25_RestartRunsStartOnce ==
  /\ [][last' = "restartRecording" =>
          /\ audioChunks' = << >>
          /\ appState' = IDLE
          /\ Len(pendingTimers') = Len(pendingTimers) + 1]_vars
  /\ [][last' = "restartTimer" =>
          /\ pendingAcq' = pendingAcq + 1
          /\ lastArg'.num # 0 => streamOpen'[lastArg'.num] # "open"]_vars
  /\ (mounted /\ last = "restartRecording") ~>
          (\/ appState = RECORDING /\ audioChunks = << >>
           \/ appState = ERROR
           \/ ~mounted)

\* C26: every entry into phase Processing is eventually followed by phase
\* Idle, provided remote calls settle and stopping recorders deliver their
\* stop event (the component staying mounted).
C26_ProcessingReachesIdle ==
  (mounted /\ appState = PROCESSING) ~> (appState = IDLE \/ ~mounted)

\* C27: an accepted file upload moves phase to Processing and submits the
\* supplied file itself to transcription; it acquires no stream, creates or
\* stops no recorder and neither reads nor changes the chunk buffer.
C27_UploadBypassesCapture ==
  [][(last' = "handleFileUpload" /\ mounted
        /\ lastArg'.num <= 500 * 1024 * 1024) =>
       /\ appState' = PROCESSING
       /\ Len(transcribing') = Len(transcribing) + 1
       /\ IsPrefix(transcribing, transcribing')
       /\ transcribing'[Len(transcribing')] =
            [rec |-> 0, chunks |-> << >>, file |-> lastArg'.num]
       /\ UNCHANGED <<mediaRecorderRef, streamRef, audioChunks, recState,
                      recOnstop, flushPending, streamOpen, nextId, pendingAcq,
                      pendingTimers>>]_vars

C27_Witness ==
  /\ last = "handleFileUpload"
  /\ mounted
  /\ appState = PROCESSING
  /\ audioChunks # << >>
  /\ transcribing # << >>
  /\ transcribing[Len(transcribing)].file = 500 * 1024 * 1024

\* C28: Export composes one text, the summary section only when a summary
\* exists, followed by all stored segments in store order numbered from 1 by
\* position; it hands that text to the share action when available and
\* otherwise to the clipboard, and changes neither phase, segments, summary
\* nor chat log.
C28_ExportComposesOneText ==
  [][last' = "handleExport" =>
       /\ lastArg'.text =
            (IF summary # NullSummary /\ summary # << >>
             THEN <<"--- SUMMARY ---\n">> \o summary
                    \o <<"\n\n--- TRANSCRIPTS ---\n">>
             ELSE << >>)
            \o Join([k \in DOMAIN segments |->
                       <<"Segment ", ToString(k), ":\n">> \o segments[k].text],
                    <<"\n\n">>)
       /\ lastArg'.via = (IF lastArg'.num = 1 THEN "share" ELSE "clipboard")
       /\ UNCHANGED <<appState, segments, summary, chatMessages>>]_vars

C28_Witness ==
  /\ last = "handleExport"
  /\ Len(segments) = 2
  /\ segments[1].text # segments[2].text
  /\ Truthy(summary)
  /\ lastArg.via = "clipboard"

\* C29: in every reachable state the displayed phase agrees with the capture
\* actually running: phase is Recording exactly when the current recorder is
\* recording, Paused exactly when it is paused, and in Idle, Processing and
\* Error no recorder is capturing.
C29_PhaseAgreesWithCapture ==
  mounted =>
    /\ appState = RECORDING <=>
         (mediaRecorderRef # 0 /\ recState[mediaRecorderRef] = "recording")
    /\ appState = PAUSED <=>
         (mediaRecorderRef # 0 /\ recState[mediaRecorderRef] = "paused")
    /\ appState \in {IDLE, PROCESSING, ERROR} =>
         \A r \in RecIds : recState[r] \notin Active

\* C30: at most one transcription or summarization request is outstanding at
\* any time, and while one is in flight no Start runs, no recording begins and
\* no further request is issued.
C30_OneRemoteRequest ==
  /\ [](Len(transcribing) + summarizing <= 1)
  /\ [][(Len(transcribing) + summarizing > 0) =>
          /\ last' \notin {"initRecording", "restartTimer", "started",
                           "stopAndProcess"}
          /\ Len(transcribing') <= Len(transcribing)
          /\ summarizing' <= summarizing]_vars

\* the steps that are not user commands: continuations of suspended handlers,
\* timers and events of the platform
AsyncSteps ==
  {"acquireFails", "createFails", "startFails", "started", "restartTimer",
   "recorderStopTask", "recorderTracksEnded", "streamTracksEnded",
   "processAudioSucceeds", "processAudioFails",
   "handleSummarizeSucceeds", "handleSummarizeFails",
   "handleSendMessageAnswered", "handleSendMessageFails"}

\* C31: after Clear All the segment list, the summary and the chat log stay
\* empty until the user issues a new command: a step that is not a user
\* command and directly follows Clear All (the completion of a transcription,
\* summarization or question that was in flight) adds nothing to them.
C31_ClearAllStaysEmpty ==
  [][(mounted /\ last = "clearAll" /\ last' \in AsyncSteps) =>
       /\ segments' = << >>
       /\ summary' = NullSummary
       /\ chatMessages' = << >>]_vars

\* C32: no segment with empty text is ever stored, and a transcription whose
\* response trims to the empty string (empty, absent or whitespace-only) is
\* never completed as a success.
C32_NoEmptySegment ==
  /\ [](\A k \in DOMAIN segments : segments[k].text # << >>)
  /\ [][last' = "processAudioSucceeds" => Trim(lastArg'.text) # << >>]_vars

====
